---- MODULE Spec2Model ----
(***************************************************************************)
(* Model of the libzip C++ wrapper (zip.hpp: File, Source, Archive).       *)
(*                                                                         *)
(* The wrapper owns a native archive handle, forwards every operation to   *)
(* the native library and turns failing return codes into exceptions.  The *)
(* wrapper's own code is modelled from the header; the native library      *)
(* (zip_open, zip_close, zip_file_add, ...) is not part of the repository  *)
(* and is modelled from the contract the specification gives for the       *)
(* entry table, the archive session and the stream codec.                  *)
(***************************************************************************)
EXTENDS Integers, Sequences, FiniteSets, TLC

(***************************************************************************)
(* Bounds.                                                                 *)
(***************************************************************************)
\* number of Archive objects the caller declares
MaxObjs == 2
\* number of native handles zip_open hands out in one run
MaxHandles == 2
\* number of entry slots of one native handle
MaxEntries == 3
\* length, in bytes, of the short payloads
MaxLen == 2
\* number of buffering calls (add, mkdir, replace, rename, remove, set*) in one run
MaxOps == 2
\* the number of File objects of a run
MaxFiles == 1
\* how far from 0 and from 2^64 an Iterator is stepped
MaxSteps == 2

(***************************************************************************)
(* Byte strings.  Only the length and the content matter to the wrapper,   *)
(* so a string is a run of `len' bytes of value `fill'.  Lengths are       *)
(* 64-bit in the code; they are kept exactly as two limbs, hi * 2^16 + lo, *)
(* with lo < 2^16 and hi < 2^48.                                           *)
(***************************************************************************)
\* width of `int', the return type of File::read(void *, Uint64)
IntBits == 32

Bytes(hi, lo, fill) == [hi |-> hi, lo |-> lo, fill |-> IF hi = 0 /\ lo = 0 THEN 0 ELSE fill]

EmptyBytes == Bytes(0, 0, 0)

\* a <= b on lengths
LenLeq(a, b) == a.hi < b.hi \/ (a.hi = b.hi /\ a.lo <= b.lo)

\* the payloads the caller adds: an empty one, a short one and one of exactly
\* 2^(IntBits - 1) bytes
Payloads == { EmptyBytes, Bytes(0, MaxLen, 2), Bytes(2^(IntBits - 17), 0, 3) }

\* comments of the archive and of entries
Comments == {"", "c"}

\* entry names, as sequences of characters ('/' ends a directory name)
Names == { <<"a">>, <<"b">>, <<"d", "/">> }

\* directory names the callers pass to mkdir, with and without the final '/'
Dirs == { <<"d">>, <<"d", "/">> }

\* compression methods
Comps == {"ZIP_CM_DEFAULT", "ZIP_CM_STORE"}

\* paths of disk files a file source may name; only the first one exists
Paths == {"data.txt", "file_not_exist"}

\* the files beside the archive: the content of data.txt (src of the tests)
FileExists(path) == path = "data.txt"

FileContent(path) == Bytes(0, MaxLen, 1)

(***************************************************************************)
(* Records of the native library.                                          *)
(***************************************************************************)
\* a committed entry
Ent(name, data, comment, comp) ==
    [name |-> name, data |-> data, comment |-> comment, comp |-> comp]

NullEnt == Ent(<<>>, EmptyBytes, "", "ZIP_CM_DEFAULT")

\* a native source (struct zip_source)
NoSource == [kind |-> "none", data |-> EmptyBytes, path |-> ""]

BufferSource(data) == [kind |-> "buffer", data |-> data, path |-> ""]

FileSource(path) == [kind |-> "file", data |-> EmptyBytes, path |-> path]

\* an entry slot of an open handle: the committed entry it was read from
\* (if any), the buffered name/comment/compression, the tombstone mark and
\* the buffered replacement data
Slot(hasOrig, orig, name, comment, comp, deleted, source) ==
    [hasOrig |-> hasOrig, orig |-> orig, name |-> name, comment |-> comment,
     comp |-> comp, deleted |-> deleted, source |-> source]

OrigSlot(e) == Slot(TRUE, e, e.name, e.comment, e.comp, FALSE, NoSource)

\* the archive file on storage
NoFile == [exists |-> FALSE, entries |-> <<>>, comment |-> ""]

\* an archive written by an earlier run: a file, a second file, a directory
StatsZip ==
    [exists |-> TRUE,
     entries |-> << Ent(<<"a">>, Bytes(0, MaxLen, 1), "", "ZIP_CM_DEFAULT"),
                    Ent(<<"b">>, Bytes(0, MaxLen, 2), "", "ZIP_CM_DEFAULT"),
                    Ent(<<"d", "/">>, EmptyBytes, "", "ZIP_CM_DEFAULT") >>,
     comment |-> ""]

\* a native handle (struct zip)
FreeZip == [st |-> "free", entry |-> <<>>, comment_orig |-> "",
            comment_changed |-> FALSE, comment_changes |-> ""]

Objs == 1..MaxObjs

Handles == 1..MaxHandles

\* the null pointer
NULL == 0

Files == 1..MaxFiles

\* a File object that does not exist (yet)
NoFileObj == [st |-> "none", h |-> NULL, rest |-> EmptyBytes]

\* nothing returned
NoValue == [kind |-> "none"]

\* the caller's std::string: not constructed ("none"), "alive" with its
\* content data, or "destroyed"; the Source made by source::buffer from it, as
\* the value the closure holds; made: the content when buffer() was called
NoCaller == [str |-> "none", data |-> EmptyBytes, source |-> NoSource, made |-> EmptyBytes]

(***************************************************************************)
(* The native library, as operators on one handle z.  Indices are 0-based  *)
(* as in the API; slot i of the API is z.entry[i + 1].                     *)
(***************************************************************************)
MinOf(S) == CHOOSE x \in S : \A y \in S : x <= y

ValidIndex(z, index) == index >= 0 /\ index < Len(z.entry)

\* a slot that holds an entry (not tombstoned)
LiveIndex(z, index) == ValidIndex(z, index) /\ ~z.entry[index + 1].deleted

\* the tombstone an added (never committed) slot turns into
AddedTombstone == Slot(FALSE, NullEnt, <<>>, "", "ZIP_CM_DEFAULT", TRUE, NoSource)

\* zip_get_num_entries: the number of slots, tombstones included
zip_get_num_entries(z) == Len(z.entry)

\* zip_name_locate: the first live slot that carries the name, or -1
zip_name_locate(z, name) ==
    LET hits == { i \in 0..(Len(z.entry) - 1) : LiveIndex(z, i) /\ z.entry[i + 1].name = name }
    IN  IF hits = {} THEN -1 ELSE MinOf(hits)

\* the bytes an entry will hold, as far as they are known before finalize
SlotData(s) ==
    IF s.source.kind = "buffer" THEN s.source.data
    ELSE IF s.source.kind = "file" THEN FileContent(s.source.path)
    ELSE s.orig.data

\* whether the size of a slot is known: not for a file source whose file is missing
SlotSizeKnown(s) == s.source.kind = "file" => FileExists(s.source.path)

\* zip_stat_index: the buffered view of slot index
zip_stat_index(z, index) ==
    IF ~LiveIndex(z, index)
    THEN [ret |-> -1, name |-> <<>>, index |-> 0, size |-> EmptyBytes, size_valid |-> FALSE]
    ELSE LET s == z.entry[index + 1]
         IN  [ret |-> 0, name |-> s.name, index |-> index,
              size |-> IF SlotSizeKnown(s) THEN Bytes(SlotData(s).hi, SlotData(s).lo, 0) ELSE EmptyBytes,
              size_valid |-> SlotSizeKnown(s)]

\* zip_stat: zip_name_locate, then zip_stat_index
zip_stat(z, name) == zip_stat_index(z, zip_name_locate(z, name))

\* zip_file_add: append a slot; a name held by a live entry is refused
zip_file_add(z, name, src) ==
    IF zip_name_locate(z, name) >= 0
    THEN [ret |-> -1, z |-> z]
    ELSE [ret |-> Len(z.entry),
          z |-> [z EXCEPT !.entry = Append(@, Slot(FALSE, NullEnt, name, "", "ZIP_CM_DEFAULT", FALSE, src))]]

\* the name zip_dir_add stores: the directory name with one trailing '/'
DirName(name) == IF name[Len(name)] = "/" THEN name ELSE Append(name, "/")

\* zip_dir_add: append an empty entry under the directory name
zip_dir_add(z, name) == zip_file_add(z, DirName(name), BufferSource(EmptyBytes))

\* zip_file_replace: buffer new data for a live slot
zip_file_replace(z, index, src) ==
    IF ~LiveIndex(z, index)
    THEN [ret |-> -1, z |-> z]
    ELSE [ret |-> 0, z |-> [z EXCEPT !.entry[index + 1].source = src]]

\* zip_file_rename: a name held by another live entry is refused
zip_file_rename(z, index, name) ==
    IF ~LiveIndex(z, index)
    THEN [ret |-> -1, z |-> z]
    ELSE IF zip_name_locate(z, name) >= 0 /\ zip_name_locate(z, name) # index
    THEN [ret |-> -1, z |-> z]
    ELSE [ret |-> 0, z |-> [z EXCEPT !.entry[index + 1].name = name]]

\* zip_delete: tombstone the slot, dropping its buffered changes; no slot moves
zip_delete(z, index) ==
    IF ~ValidIndex(z, index)
    THEN [ret |-> -1, z |-> z]
    ELSE LET s == z.entry[index + 1]
         IN  [ret |-> 0,
              z |-> [z EXCEPT !.entry[index + 1] =
                        IF s.hasOrig THEN [OrigSlot(s.orig) EXCEPT !.deleted = TRUE]
                        ELSE AddedTombstone]]

\* zip_file_set_comment
zip_file_set_comment(z, index, text) ==
    IF ~LiveIndex(z, index)
    THEN [ret |-> -1, z |-> z]
    ELSE [ret |-> 0, z |-> [z EXCEPT !.entry[index + 1].comment = text]]

\* zip_file_get_comment: NULL is reported as ok = FALSE
zip_file_get_comment(z, index) ==
    IF ~LiveIndex(z, index)
    THEN [ok |-> FALSE, text |-> ""]
    ELSE [ok |-> TRUE, text |-> z.entry[index + 1].comment]

\* zip_set_file_compression
zip_set_file_compression(z, index, comp) ==
    IF ~LiveIndex(z, index)
    THEN [ret |-> -1, z |-> z]
    ELSE [ret |-> 0, z |-> [z EXCEPT !.entry[index + 1].comp = comp]]

\* zip_set_archive_comment
zip_set_archive_comment(z, text) ==
    [ret |-> 0,
     z |-> [z EXCEPT !.comment_changed = (text # z.comment_orig),
                     !.comment_changes = IF text # z.comment_orig THEN text ELSE ""]]

\* zip_get_archive_comment: the buffered comment if there is one
zip_get_archive_comment(z) ==
    [ok |-> TRUE, text |-> IF z.comment_changed THEN z.comment_changes ELSE z.comment_orig]

\* zip_set_default_password: it copies the password and fails when it cannot
zip_set_default_password(z, password, memOk) == [ret |-> IF memOk THEN 0 ELSE -1, z |-> z]

\* zip_set_archive_flag and zip_get_archive_flag: the flags are kept by the
\* library; whether the call succeeds and what it answers are its own
zip_set_archive_flag(z, which, value, ok) == [ret |-> IF ok THEN 0 ELSE -1, z |-> z]

zip_get_archive_flag(z, which, answer) == answer

\* zip_unchange_archive: drop the archive-level changes
zip_unchange_archive(z) ==
    [ret |-> 0, z |-> [z EXCEPT !.comment_changed = FALSE, !.comment_changes = ""]]

\* zip_unchange: drop the buffered changes of one slot; refused when the
\* committed name is meanwhile held by another live entry
zip_unchange(z, index) ==
    IF ~ValidIndex(z, index)
    THEN [ret |-> -1, z |-> z]
    ELSE LET s == z.entry[index + 1]
         IN  IF ~s.hasOrig
             THEN [ret |-> 0, z |-> [z EXCEPT !.entry[index + 1] = AddedTombstone]]
             ELSE IF zip_name_locate(z, s.orig.name) >= 0 /\ zip_name_locate(z, s.orig.name) # index
             THEN [ret |-> -1, z |-> z]
             ELSE [ret |-> 0, z |-> [z EXCEPT !.entry[index + 1] = OrigSlot(s.orig)]]

\* the committed slots of a handle, in order, without their changes
CommittedSlots(z) ==
    LET n == Cardinality({ i \in 1..Len(z.entry) : z.entry[i].hasOrig })
    IN  [i \in 1..n |-> OrigSlot(z.entry[i].orig)]

\* zip_unchange_all: "revert all changes": every slot and the archive level
zip_unchange_all(z) ==
    [ret |-> 0,
     z |-> [z EXCEPT !.entry = CommittedSlots(z), !.comment_changed = FALSE, !.comment_changes = ""]]

\* whether a handle holds any buffered change
Changed(z) == z.entry # CommittedSlots(z) \/ z.comment_changed

\* the entry a surviving slot is written as
WrittenEnt(s) == Ent(s.name, SlotData(s), s.comment, s.comp)

Survives(s) == ~s.deleted

\* the entries finalize writes: the surviving slots, in slot order
Survivors(z) ==
    LET live == SelectSeq(z.entry, Survives)
    IN  [i \in 1..Len(live) |-> WrittenEnt(live[i])]

\* a buffered change finalize cannot carry out: a file source without its file
Unwritable(s) == ~s.deleted /\ s.source.kind = "file" /\ ~FileExists(s.source.path)

\* zip_close: finalize.  Without changes nothing is written.  Otherwise the
\* surviving entries replace the archive as a whole, or, on failure (a
\* missing source file, a storage error), the archive on storage stays as it
\* was and -1 is returned.  An archive without entries is not kept on storage.
zip_close(z, d, ioOk) ==
    IF ~Changed(z)
    THEN [ret |-> 0, disk |-> d]
    ELSE IF ~ioOk \/ \E i \in 1..Len(z.entry) : Unwritable(z.entry[i])
    THEN [ret |-> -1, disk |-> d]
    ELSE IF Len(Survivors(z)) = 0
    THEN [ret |-> 0, disk |-> NoFile]
    ELSE [ret |-> 0,
          disk |-> [exists |-> TRUE, entries |-> Survivors(z),
                    comment |-> zip_get_archive_comment(z).text]]

\* zip_open: read the entry table of an existing archive; a missing file is
\* an error unless ZIP_CREATE is given, then the archive starts empty
zip_open(d, flags) ==
    IF d.exists
    THEN [ok |-> TRUE,
          z |-> [st |-> "open", entry |-> [i \in 1..Len(d.entries) |-> OrigSlot(d.entries[i])],
                 comment_orig |-> d.comment, comment_changed |-> FALSE, comment_changes |-> ""]]
    ELSE IF "ZIP_CREATE" \in flags
    THEN [ok |-> TRUE, z |-> [FreeZip EXCEPT !.st = "open"]]
    ELSE [ok |-> FALSE, z |-> FreeZip]

\* zip_fopen: a read stream on the entry of that name, NULL (ok = FALSE) if
\* there is none
zip_fopen(z, name) ==
    IF zip_name_locate(z, name) < 0
    THEN [ok |-> FALSE, data |-> EmptyBytes]
    ELSE [ok |-> TRUE, data |-> SlotData(z.entry[zip_name_locate(z, name) + 1])]

\* zip_fread on a fresh stream: the number of bytes read, at most length and
\* at most what the entry holds
zip_fread(data, length) == IF LenLeq(length, data) THEN length ELSE data

\* a - b for lengths with b <= a
LenSub(a, b) ==
    [hi |-> a.hi - b.hi - (IF a.lo < b.lo THEN 1 ELSE 0),
     lo |-> (a.lo - b.lo) % 2^16]

\* zip_fread on a stream with the bytes rest left: it fails (-1) when the
\* archive of the stream is closed or when the read of the storage fails
zip_fread_at(zOpen, ioOk, rest, length) ==
    IF zOpen /\ ioOk
    THEN [fail |-> FALSE, count |-> zip_fread(rest, length)]
    ELSE [fail |-> TRUE, count |-> EmptyBytes]

(***************************************************************************)
(* The wrapper: File.                                                      *)
(***************************************************************************)
\* conversion of a 64-bit count to int: the low IntBits bits, two's complement
IntNegative(count) == (count.hi % 2^(IntBits - 16)) >= 2^(IntBits - 17)

IntValue(count) == [hi |-> count.hi % 2^(IntBits - 16), lo |-> count.lo]

\* File::read(void *, Uint64): zip_fread's count, returned as int
File_read_raw(data, length) ==
    [negative |-> IntNegative(zip_fread(data, length)),
     count |-> IntValue(zip_fread(data, length))]

\* File::read(Uint64): the first count bytes, or "" when count < 0
File_read(data, length) ==
    LET r == File_read_raw(data, length)
    IN  IF r.negative THEN EmptyBytes ELSE Bytes(r.count.hi, r.count.lo, data.fill)

\* ZipFile::read(unsigned): the length the caller passes is converted to
\* unsigned, its low IntBits bits, before the same body runs
ZipFile_read(data, length) ==
    File_read(data, [hi |-> length.hi % 2^(IntBits - 16), lo |-> length.lo])

\* File::read(Uint64) on a stream that may fail: "" when the count is
\* negative, and no exception
File_read_at(zOpen, ioOk, rest, length) ==
    LET n == zip_fread_at(zOpen, ioOk, rest, length)
    IN  IF n.fail
        THEN [thrown |-> FALSE, content |-> EmptyBytes]
        ELSE [thrown |-> FALSE, content |-> File_read(rest, length)]

(***************************************************************************)
(* The wrapper: Source.                                                    *)
(***************************************************************************)
\* source::buffer and source::file: the closures, as the values they capture
source_buffer(data) == [kind |-> "buffer", data |-> data, path |-> ""]

source_file(path) == [kind |-> "file", data |-> EmptyBytes, path |-> path]

Sources == { source_buffer(p) : p \in Payloads } \cup { source_file(p) : p \in Paths }

\* a file source that looks for its file when the closure is called
CallSource_eager(source, memOk) ==
    IF ~memOk \/ (source.kind = "file" /\ ~FileExists(source.path))
    THEN [thrown |-> TRUE, src |-> NoSource]
    ELSE IF source.kind = "buffer"
    THEN [thrown |-> FALSE, src |-> BufferSource(source.data)]
    ELSE [thrown |-> FALSE, src |-> FileSource(source.path)]

\* calling the closure: source::buffer copies size bytes into a malloc'ed
\* block and throws when malloc returns null; source::file throws when
\* zip_source_file returns null.  memOk: the allocation succeeds.
CallSource(source, memOk) ==
    IF ~memOk
    THEN [thrown |-> TRUE, src |-> NoSource]
    ELSE IF source.kind = "buffer"
    THEN [thrown |-> FALSE, src |-> BufferSource(Bytes(source.data.hi, source.data.lo, source.data.fill))]
    ELSE [thrown |-> FALSE, src |-> FileSource(source.path)]

(***************************************************************************)
(* The wrapper: the read operations of Archive, on the native handle z.    *)
(***************************************************************************)
\* exists with the comparison > 0 in place of >= 0
exists_positive(z, name) == zip_name_locate(z, name) > 0

\* Archive::exists
exists(z, name) == zip_name_locate(z, name) >= 0

\* find throwing on index <= 0 in place of index < 0
find_nonpositive(z, name) ==
    LET index == zip_name_locate(z, name)
    IN  [thrown |-> index <= 0, ret |-> index]

\* Archive::find
find(z, name) ==
    LET index == zip_name_locate(z, name)
    IN  [thrown |-> index < 0, ret |-> index]

\* stat(name) throwing when zip_stat succeeds
stat_name_inverted(z, name) ==
    LET st == zip_stat(z, name)
    IN  [thrown |-> st.ret >= 0, st |-> st]

\* Archive::stat(const std::string &)
stat_name(z, name) ==
    LET st == zip_stat(z, name)
    IN  [thrown |-> st.ret < 0, st |-> st]

\* Archive::stat(Uint64)
stat_index(z, index) ==
    LET st == zip_stat_index(z, index)
    IN  [thrown |-> st.ret < 0, st |-> st]

\* Archive::comment
comment(z) ==
    LET r == zip_get_archive_comment(z)
    IN  [thrown |-> ~r.ok, text |-> r.text]

\* Archive::fileComment
fileComment(z, index) ==
    LET r == zip_file_get_comment(z, index)
    IN  [thrown |-> ~r.ok, text |-> r.text]

\* Archive::flag
flag(z, which, answer) ==
    LET ret == zip_get_archive_flag(z, which, answer)
    IN  [thrown |-> ret < 0, ret |-> ret]

\* Archive::numEntries
numEntries(z) == zip_get_num_entries(z)

\* Archive::open(const std::string &) without password
open(z, name) ==
    LET f == zip_fopen(z, name)
    IN  [thrown |-> ~f.ok, data |-> f.data]

\* the usage of the README and the tests: stat(name), open(name),
\* read(stat.size)
ReadAll(z, name) ==
    IF stat_name(z, name).thrown \/ open(z, name).thrown
    THEN [thrown |-> TRUE, content |-> EmptyBytes]
    ELSE [thrown |-> FALSE, content |-> File_read(open(z, name).data, stat_name(z, name).st.size)]

(***************************************************************************)
(* Uint64 and the Iterator of Archive.  A Uint64 is four 16-bit words,     *)
(* w3 the highest; arithmetic is modulo 2^64.                              *)
(***************************************************************************)
Word == 2^16

\* the conversion of an int to Uint64: sign extension
U64(n) ==
    [w0 |-> n % Word,
     w1 |-> (n \div Word) % Word,
     w2 |-> IF n < 0 THEN Word - 1 ELSE 0,
     w3 |-> IF n < 0 THEN Word - 1 ELSE 0]

U64Add(a, b) ==
    LET s0 == a.w0 + b.w0
        s1 == a.w1 + b.w1 + s0 \div Word
        s2 == a.w2 + b.w2 + s1 \div Word
        s3 == a.w3 + b.w3 + s2 \div Word
    IN  [w0 |-> s0 % Word, w1 |-> s1 % Word, w2 |-> s2 % Word, w3 |-> s3 % Word]

U64Sub(a, b) ==
    LET d0 == a.w0 - b.w0
        d1 == a.w1 - b.w1 + d0 \div Word
        d2 == a.w2 - b.w2 + d1 \div Word
        d3 == a.w3 - b.w3 + d2 \div Word
    IN  [w0 |-> d0 % Word, w1 |-> d1 % Word, w2 |-> d2 % Word, w3 |-> d3 % Word]

\* the index zip_stat_index gets: an index of 2^16 or more is past every
\* entry table here and is treated like the index one past 2^16 - 1
U64Index(u) == IF u.w3 = 0 /\ u.w2 = 0 /\ u.w1 = 0 THEN u.w0 ELSE Word

\* Iterator(Archive *archive, Uint64 index)
Iterator(archive, index) == [m_archive |-> archive, m_index |-> index]

\* operator*() and operator->() on the handle z of m_archive: stat(m_index)
Iterator_deref(it, z) == stat_index(z, U64Index(it.m_index))

\* operator++(): the iterator after the call, which is also what it returns
Iterator_preinc(it) == [it EXCEPT !.m_index = U64Add(@, U64(1))]

\* operator++(int) returning the incremented iterator instead of the copy
Iterator_postinc_nosave(it) ==
    [save |-> [it EXCEPT !.m_index = U64Add(@, U64(1))],
     it |-> [it EXCEPT !.m_index = U64Add(@, U64(1))]]

\* operator++(int): the copy it returns and the iterator after the call
Iterator_postinc(it) == [save |-> it, it |-> [it EXCEPT !.m_index = U64Add(@, U64(1))]]

\* operator--() that stays at position 0 instead of wrapping
Iterator_predec_clamped(it) ==
    IF it.m_index = U64(0) THEN it ELSE [it EXCEPT !.m_index = U64Sub(@, U64(1))]

\* operator--()
Iterator_predec(it) == [it EXCEPT !.m_index = U64Sub(@, U64(1))]

\* operator--(int)
Iterator_postdec(it) == [save |-> it, it |-> [it EXCEPT !.m_index = U64Sub(@, U64(1))]]

\* operator+(int inc) const
Iterator_plus(it, inc) == Iterator(it.m_archive, U64Add(it.m_index, U64(inc)))

\* operator-(int dec) adding dec instead of subtracting it
Iterator_minus_added(it, dec) == Iterator(it.m_archive, U64Add(it.m_index, U64(dec)))

\* operator-(int dec) const
Iterator_minus(it, dec) == Iterator(it.m_archive, U64Sub(it.m_index, U64(dec)))

\* operator==, operator!=: the archives are not compared
Iterator_eq(a, b) == a.m_index = b.m_index

Iterator_ne(a, b) == a.m_index # b.m_index

\* operator[](int index) of Archive::Iterator: stat(m_index + index)
Iterator_subscript(it, index, z) == stat_index(z, U64Index(U64Add(it.m_index, U64(index))))

\* operator[](int index) of zippy::Archive::iterator and const_iterator:
\* stat(index)
zippy_iterator_subscript(it, index, z) == stat_index(z, U64Index(U64(index)))

(***************************************************************************)
(* State.                                                                  *)
(***************************************************************************)
VARIABLES
    disk,       \* the archive file at the path every Archive of the run opens
    obj,        \* obj[o]: lifetime of Archive object o: "none", "live", "dead", "failed"
    m_handle,   \* m_handle[o]: Archive::m_handle, a native handle or NULL
    za,         \* za[h]: the native handle h
    released,   \* released[h]: how often the deleter (zip_close) ran on h
    snapshot,   \* snapshot[h]: the archive on storage when h was opened
    last,       \* the last call: its name, whether it threw, the native return code,
                \* whether its handle held buffered changes when it began, and
                \* what it did with the native source of a Source
    nops,       \* the number of buffering calls and reads made so far
    file,       \* file[f]: File object f: its lifetime, the native handle its
                \* zip_file was opened from, the bytes of the entry not yet read
    iter,       \* the Iterator of the caller: m_archive and m_index
    out,        \* the value the last call returned, if it returns one
    caller      \* a std::string of the caller and the Source made from it

vars == <<disk, obj, m_handle, za, released, snapshot, last, nops, file, iter, out, caller>>

\* made: the Source functor of the call returned a native source; freed: how
\* often the call released it with zip_source_free
Result(op, thrown, native, dirty) ==
    [op |-> op, thrown |-> thrown, native |-> native, dirty |-> dirty,
     made |-> FALSE, freed |-> 0]

\* a wrapper that releases the native source whatever the native call returns
Released_always(ret) == 1

\* add and replace: `if (ret < 0) zip_source_free(src);'
Released(ret) == IF ret < 0 THEN 1 ELSE 0

\* an object whose methods may be called: alive and not moved from
Usable(o) == obj[o] = "live" /\ m_handle[o] # NULL

\* the native handle behind a usable object
Z(o) == za[m_handle[o]]

\* the flags the callers pass to the constructor
OpenFlags == { {}, {"ZIP_CREATE"} }

\* the indices the callers pass to o: every slot and one past the last
Indices(o) == 0..Len(Z(o).entry)

\* one more call on an archive or read of a file
Count == nops < MaxOps /\ nops' = nops + 1

Init ==
    /\ disk \in {NoFile, StatsZip}
    /\ nops = 0
    /\ obj = [o \in Objs |-> "none"]
    /\ m_handle = [o \in Objs |-> NULL]
    /\ za = [h \in Handles |-> FreeZip]
    /\ released = [h \in Handles |-> 0]
    /\ snapshot = [h \in Handles |-> NoFile]
    /\ last = Result("none", FALSE, 0, FALSE)
    /\ file = [f \in Files |-> NoFileObj]
    /\ iter = Iterator(NULL, U64(0))
    /\ out = NoValue
    /\ caller = NoCaller

(***************************************************************************)
(* Construction, moves, destruction.                                       *)
(***************************************************************************)
\* a constructor without the check for NULL
Archive_ctor_unchecked(o, flags) ==
    /\ obj[o] = "none"
    /\ \E h \in Handles :
        /\ za[h].st = "free"
        /\ \A g \in Handles : za[g].st = "free" => h <= g
        /\ LET r == zip_open(disk, flags)
           IN  /\ obj' = [obj EXCEPT ![o] = "live"]
               /\ m_handle' = [m_handle EXCEPT ![o] = IF r.ok THEN h ELSE NULL]
               /\ za' = [za EXCEPT ![h] = r.z]
               /\ snapshot' = [snapshot EXCEPT ![h] = disk]
               /\ last' = Result("Archive", FALSE, 0, FALSE)
    /\ UNCHANGED <<disk, released, nops>>
    /\ UNCHANGED <<file, iter, out, caller>>

\* Archive::Archive(path, flags): zip_open, throw on NULL, else own the handle
\* a constructor that takes the entries another open handle shows at the
\* moment, buffered changes included, instead of reading the storage
Archive_ctor_live(o, flags) ==
    /\ obj[o] = "none"
    /\ \E h \in Handles :
        /\ za[h].st = "free"
        /\ \A g \in Handles : za[g].st = "free" => h <= g
        /\ LET r == zip_open(disk, flags)
               live == { g \in Handles : za[g].st = "open" }
           IN  IF ~r.ok
               THEN /\ obj' = [obj EXCEPT ![o] = "failed"]
                    /\ last' = Result("Archive", TRUE, -1, FALSE)
                    /\ UNCHANGED <<m_handle, za, snapshot>>
               ELSE /\ obj' = [obj EXCEPT ![o] = "live"]
                    /\ m_handle' = [m_handle EXCEPT ![o] = h]
                    /\ za' = [za EXCEPT ![h] = IF live = {} THEN r.z ELSE za[MinOf(live)]]
                    /\ snapshot' = [snapshot EXCEPT ![h] = disk]
                    /\ last' = Result("Archive", FALSE, 0, FALSE)
    /\ UNCHANGED <<disk, released, nops>>
    /\ UNCHANGED <<file, iter, out, caller>>

Archive_ctor(o, flags) ==
    /\ obj[o] = "none"
    /\ \E h \in Handles :
        /\ za[h].st = "free"
        /\ \A g \in Handles : za[g].st = "free" => h <= g
        /\ LET r == zip_open(disk, flags)
           IN  IF ~r.ok
               THEN /\ obj' = [obj EXCEPT ![o] = "failed"]
                    /\ last' = Result("Archive", TRUE, -1, FALSE)
                    /\ UNCHANGED <<m_handle, za, snapshot>>
               ELSE /\ obj' = [obj EXCEPT ![o] = "live"]
                    /\ m_handle' = [m_handle EXCEPT ![o] = h]
                    /\ za' = [za EXCEPT ![h] = r.z]
                    /\ snapshot' = [snapshot EXCEPT ![h] = disk]
                    /\ last' = Result("Archive", FALSE, 0, FALSE)
    /\ UNCHANGED <<disk, released, nops>>
    /\ UNCHANGED <<file, iter, out, caller>>

\* a move constructor that copies the handle and leaves it in other too
Archive_move_ctor_copy(o, other) ==
    /\ obj[o] = "none"
    /\ obj[other] = "live"
    /\ obj' = [obj EXCEPT ![o] = "live"]
    /\ m_handle' = [m_handle EXCEPT ![o] = m_handle[other]]
    /\ last' = Result("Archive(Archive &&)", FALSE, 0, FALSE)
    /\ UNCHANGED <<disk, za, released, snapshot, nops>>
    /\ UNCHANGED <<file, iter, out, caller>>

\* Archive(Archive &&other): the handle moves, other is left empty
Archive_move_ctor(o, other) ==
    /\ obj[o] = "none"
    /\ obj[other] = "live"
    /\ obj' = [obj EXCEPT ![o] = "live"]
    /\ m_handle' = [m_handle EXCEPT ![o] = m_handle[other], ![other] = NULL]
    /\ last' = Result("Archive(Archive &&)", FALSE, 0, FALSE)
    /\ UNCHANGED <<disk, za, released, snapshot, nops>>
    /\ UNCHANGED <<file, iter, out, caller>>

\* the deleter of m_handle: zip_close on handle h; its return code is dropped
Deleter(h, ioOk, op) ==
    LET r == zip_close(za[h], disk, ioOk)
    IN  /\ disk' = r.disk
        /\ za' = [za EXCEPT ![h] = [FreeZip EXCEPT !.st = "closed"]]
        /\ snapshot' = [snapshot EXCEPT ![h] = NoFile]
        /\ released' = [released EXCEPT ![h] = @ + 1]
        /\ last' = Result(op, FALSE, r.ret, Changed(za[h]))

\* operator=(Archive &&other): the handle held so far is released, the
\* handle of other moves in, other is left empty
Archive_move_assign(o, other, ioOk) ==
    /\ obj[o] = "live"
    /\ obj[other] = "live"
    /\ o # other
    /\ m_handle' = [m_handle EXCEPT ![o] = m_handle[other], ![other] = NULL]
    /\ IF m_handle[o] # NULL
       THEN Deleter(m_handle[o], ioOk, "operator=")
       ELSE /\ last' = Result("operator=", FALSE, 0, FALSE)
            /\ UNCHANGED <<disk, za, released, snapshot>>
    /\ UNCHANGED <<obj, nops>>
    /\ UNCHANGED <<file, iter, out, caller>>

\* ~Archive(): the deleter runs if a handle is held
Archive_dtor(o, ioOk) ==
    /\ obj[o] = "live"
    /\ obj' = [obj EXCEPT ![o] = "dead"]
    /\ m_handle' = [m_handle EXCEPT ![o] = NULL]
    /\ IF m_handle[o] # NULL
       THEN Deleter(m_handle[o], ioOk, "~Archive")
       ELSE /\ last' = Result("~Archive", FALSE, 0, FALSE)
            /\ UNCHANGED <<disk, za, released, snapshot>>
    /\ UNCHANGED nops
    /\ UNCHANGED <<file, iter, out, caller>>

(***************************************************************************)
(* The changing operations of Archive.                                     *)
(***************************************************************************)
\* Archive::add
Archive_add(o, source, name, memOk) ==
    /\ Usable(o)
    /\ Count
    /\ LET src == CallSource(source, memOk)
           r == zip_file_add(Z(o), name, src.src)
       IN  IF src.thrown
           THEN /\ last' = Result("add", TRUE, 0, Changed(Z(o)))
                /\ za' = za
           ELSE /\ r.ret >= 0 => Len(Z(o).entry) < MaxEntries
                /\ za' = [za EXCEPT ![m_handle[o]] = r.z]
                /\ last' = [Result("add", r.ret < 0, r.ret, Changed(Z(o)))
                               EXCEPT !.made = TRUE, !.freed = Released(r.ret)]
    /\ UNCHANGED <<disk, obj, m_handle, released, snapshot>>
    /\ UNCHANGED <<file, iter, out, caller>>

\* Archive::mkdir
Archive_mkdir(o, directory) ==
    /\ Usable(o)
    /\ Count
    /\ LET r == zip_dir_add(Z(o), directory)
       IN  /\ r.ret >= 0 => Len(Z(o).entry) < MaxEntries
           /\ za' = [za EXCEPT ![m_handle[o]] = r.z]
           /\ last' = Result("mkdir", r.ret < 0, r.ret, Changed(Z(o)))
    /\ UNCHANGED <<disk, obj, m_handle, released, snapshot>>
    /\ UNCHANGED <<file, iter, out, caller>>

\* Archive::replace
Archive_replace(o, source, index, memOk) ==
    /\ Usable(o)
    /\ Count
    /\ LET src == CallSource(source, memOk)
           r == zip_file_replace(Z(o), index, src.src)
       IN  IF src.thrown
           THEN /\ last' = Result("replace", TRUE, 0, Changed(Z(o)))
                /\ za' = za
           ELSE /\ za' = [za EXCEPT ![m_handle[o]] = r.z]
                /\ last' = [Result("replace", r.ret < 0, r.ret, Changed(Z(o)))
                               EXCEPT !.made = TRUE, !.freed = Released(r.ret)]
    /\ UNCHANGED <<disk, obj, m_handle, released, snapshot>>
    /\ UNCHANGED <<file, iter, out, caller>>

\* rename without the check of the return code
Archive_rename_unchecked(o, index, name) ==
    /\ Usable(o)
    /\ Count
    /\ LET r == zip_file_rename(Z(o), index, name)
       IN  /\ za' = [za EXCEPT ![m_handle[o]] = r.z]
           /\ last' = Result("rename", FALSE, r.ret, Changed(Z(o)))
    /\ UNCHANGED <<disk, obj, m_handle, released, snapshot>>
    /\ UNCHANGED <<file, iter, out, caller>>

\* Archive::rename
Archive_rename(o, index, name) ==
    /\ Usable(o)
    /\ Count
    /\ LET r == zip_file_rename(Z(o), index, name)
       IN  /\ za' = [za EXCEPT ![m_handle[o]] = r.z]
           /\ last' = Result("rename", r.ret < 0, r.ret, Changed(Z(o)))
    /\ UNCHANGED <<disk, obj, m_handle, released, snapshot>>
    /\ UNCHANGED <<file, iter, out, caller>>

\* remove that rewrites the archive on storage at once
Archive_remove_eager(o, index) ==
    /\ Usable(o)
    /\ Count
    /\ LET r == zip_delete(Z(o), index)
       IN  /\ za' = [za EXCEPT ![m_handle[o]] = r.z]
           /\ disk' = zip_close(r.z, disk, TRUE).disk
           /\ last' = Result("remove", r.ret < 0, r.ret, Changed(Z(o)))
    /\ UNCHANGED <<obj, m_handle, released, snapshot>>
    /\ UNCHANGED <<file, iter, out, caller>>

\* remove that deletes the slot after the one asked for
Archive_remove_next(o, index) ==
    /\ Usable(o)
    /\ Count
    /\ LET r == zip_delete(Z(o), index + 1)
       IN  /\ za' = [za EXCEPT ![m_handle[o]] = r.z]
           /\ last' = Result("remove", r.ret < 0, r.ret, Changed(Z(o)))
    /\ UNCHANGED <<disk, obj, m_handle, released, snapshot>>
    /\ UNCHANGED <<file, iter, out, caller>>

\* Archive::remove
Archive_remove(o, index) ==
    /\ Usable(o)
    /\ Count
    /\ LET r == zip_delete(Z(o), index)
       IN  /\ za' = [za EXCEPT ![m_handle[o]] = r.z]
           /\ last' = Result("remove", r.ret < 0, r.ret, Changed(Z(o)))
    /\ UNCHANGED <<disk, obj, m_handle, released, snapshot>>
    /\ UNCHANGED <<file, iter, out, caller>>

\* Archive::setFileComment
Archive_setFileComment(o, index, text) ==
    /\ Usable(o)
    /\ Count
    /\ LET r == zip_file_set_comment(Z(o), index, text)
       IN  /\ za' = [za EXCEPT ![m_handle[o]] = r.z]
           /\ last' = Result("setFileComment", r.ret < 0, r.ret, Changed(Z(o)))
    /\ UNCHANGED <<disk, obj, m_handle, released, snapshot>>
    /\ UNCHANGED <<file, iter, out, caller>>

\* Archive::setFileCompression
Archive_setFileCompression(o, index, comp) ==
    /\ Usable(o)
    /\ Count
    /\ LET r == zip_set_file_compression(Z(o), index, comp)
       IN  /\ za' = [za EXCEPT ![m_handle[o]] = r.z]
           /\ last' = Result("setFileCompression", r.ret < 0, r.ret, Changed(Z(o)))
    /\ UNCHANGED <<disk, obj, m_handle, released, snapshot>>
    /\ UNCHANGED <<file, iter, out, caller>>

\* Archive::setComment
Archive_setComment(o, text) ==
    /\ Usable(o)
    /\ Count
    /\ LET r == zip_set_archive_comment(Z(o), text)
       IN  /\ za' = [za EXCEPT ![m_handle[o]] = r.z]
           /\ last' = Result("setComment", r.ret < 0, r.ret, Changed(Z(o)))
    /\ UNCHANGED <<disk, obj, m_handle, released, snapshot>>
    /\ UNCHANGED <<file, iter, out, caller>>

\* unchange with the test of the return code turned around
Archive_unchange_inverted(o, index) ==
    /\ Usable(o)
    /\ LET r == zip_unchange(Z(o), index)
       IN  /\ za' = [za EXCEPT ![m_handle[o]] = r.z]
           /\ last' = Result("unchange", r.ret >= 0, r.ret, Changed(Z(o)))
    /\ UNCHANGED <<disk, obj, m_handle, released, snapshot, nops>>
    /\ UNCHANGED <<file, iter, out, caller>>

\* Archive::unchange
Archive_unchange(o, index) ==
    /\ Usable(o)
    /\ LET r == zip_unchange(Z(o), index)
       IN  /\ za' = [za EXCEPT ![m_handle[o]] = r.z]
           /\ last' = Result("unchange", r.ret < 0, r.ret, Changed(Z(o)))
    /\ UNCHANGED <<disk, obj, m_handle, released, snapshot, nops>>
    /\ UNCHANGED <<file, iter, out, caller>>

\* unchangeAll that calls zip_unchange_archive
Archive_unchangeAll_archive(o) ==
    /\ Usable(o)
    /\ LET r == zip_unchange_archive(Z(o))
       IN  /\ za' = [za EXCEPT ![m_handle[o]] = r.z]
           /\ last' = Result("unchangeAll", r.ret < 0, r.ret, Changed(Z(o)))
    /\ UNCHANGED <<disk, obj, m_handle, released, snapshot, nops>>
    /\ UNCHANGED <<file, iter, out, caller>>

\* Archive::unchangeAll
Archive_unchangeAll(o) ==
    /\ Usable(o)
    /\ LET r == zip_unchange_all(Z(o))
       IN  /\ za' = [za EXCEPT ![m_handle[o]] = r.z]
           /\ last' = Result("unchangeAll", r.ret < 0, r.ret, Changed(Z(o)))
    /\ UNCHANGED <<disk, obj, m_handle, released, snapshot, nops>>
    /\ UNCHANGED <<file, iter, out, caller>>

\* Archive::unchangeArchive
\* unchangeArchive forwarding to zip_unchange_all
Archive_unchangeArchive_all(o) ==
    /\ Usable(o)
    /\ LET r == zip_unchange_all(Z(o))
       IN  /\ za' = [za EXCEPT ![m_handle[o]] = r.z]
           /\ last' = Result("unchangeArchive", r.ret < 0, r.ret, Changed(Z(o)))
    /\ UNCHANGED <<disk, obj, m_handle, released, snapshot, nops>>
    /\ UNCHANGED <<file, iter, out, caller>>

Archive_unchangeArchive(o) ==
    /\ Usable(o)
    /\ LET r == zip_unchange_archive(Z(o))
       IN  /\ za' = [za EXCEPT ![m_handle[o]] = r.z]
           /\ last' = Result("unchangeArchive", r.ret < 0, r.ret, Changed(Z(o)))
    /\ UNCHANGED <<disk, obj, m_handle, released, snapshot, nops>>
    /\ UNCHANGED <<file, iter, out, caller>>

\* passwords and archive flags the callers pass, and what
\* zip_get_archive_flag may answer
Passwords == {"", "pw"}

ArchiveFlags == {"ZIP_AFL_RDONLY"}

FlagAnswers == {-1, 0, 1}

\* Archive::setDefaultPassword
Archive_setDefaultPassword(o, password, memOk) ==
    /\ Usable(o)
    /\ Count
    /\ LET r == zip_set_default_password(Z(o), password, memOk)
       IN  /\ za' = [za EXCEPT ![m_handle[o]] = r.z]
           /\ last' = Result("setDefaultPassword", r.ret < 0, r.ret, Changed(Z(o)))
    /\ UNCHANGED <<disk, obj, m_handle, released, snapshot>>
    /\ UNCHANGED <<file, iter, out, caller>>

\* setFlag without the check of the return code
Archive_setFlag_unchecked(o, which, value, ok) ==
    /\ Usable(o)
    /\ Count
    /\ LET r == zip_set_archive_flag(Z(o), which, value, ok)
       IN  /\ za' = [za EXCEPT ![m_handle[o]] = r.z]
           /\ last' = Result("setFlag", FALSE, r.ret, Changed(Z(o)))
    /\ UNCHANGED <<disk, obj, m_handle, released, snapshot>>
    /\ UNCHANGED <<file, iter, out, caller>>

\* Archive::setFlag
Archive_setFlag(o, which, value, ok) ==
    /\ Usable(o)
    /\ Count
    /\ LET r == zip_set_archive_flag(Z(o), which, value, ok)
       IN  /\ za' = [za EXCEPT ![m_handle[o]] = r.z]
           /\ last' = Result("setFlag", r.ret < 0, r.ret, Changed(Z(o)))
    /\ UNCHANGED <<disk, obj, m_handle, released, snapshot>>
    /\ UNCHANGED <<file, iter, out, caller>>

(***************************************************************************)
(* File: Archive::open, File::read, ~File.                                 *)
(***************************************************************************)
\* the lengths the callers pass to File::read
ReadLengths == { [hi |-> 0, lo |-> 0], [hi |-> 0, lo |-> MaxLen],
                 [hi |-> 0, lo |-> MaxLen + 1], [hi |-> 2^(IntBits - 17), lo |-> 0] }

\* Archive::open(name): the File is constructed from the zip_file
Archive_open(o, f, name) ==
    /\ Usable(o)
    /\ file[f].st = "none"
    /\ LET r == open(Z(o), name)
       IN  /\ file' = IF r.thrown THEN file
                      ELSE [file EXCEPT ![f] = [st |-> "open", h |-> m_handle[o], rest |-> r.data]]
           /\ last' = Result("open", r.thrown, IF r.thrown THEN -1 ELSE 0, Changed(Z(o)))
    /\ out' = NoValue
    /\ UNCHANGED <<disk, obj, m_handle, za, released, snapshot, nops, iter, caller>>

\* File::read(Uint64) on File f; nothing in File looks at the Archive
File_read_call(f, length, ioOk) ==
    /\ file[f].st = "open"
    /\ Count
    /\ LET zOpen == za[file[f].h].st = "open"
           n == zip_fread_at(zOpen, ioOk, file[f].rest, length)
           r == File_read_at(zOpen, ioOk, file[f].rest, length)
       IN  /\ file' = [file EXCEPT ![f].rest = IF n.fail THEN @
                                              ELSE Bytes(LenSub(@, n.count).hi, LenSub(@, n.count).lo, @.fill)]
           /\ last' = Result("read", r.thrown, IF n.fail THEN -1 ELSE 0, FALSE)
           /\ out' = [kind |-> "string", content |-> r.content]
    /\ UNCHANGED <<disk, obj, m_handle, za, released, snapshot, iter, caller>>

\* ~File: the deleter zip_fclose runs
File_dtor(f) ==
    /\ file[f].st = "open"
    /\ file' = [file EXCEPT ![f] = [st |-> "closed", h |-> @.h, rest |-> EmptyBytes]]
    /\ last' = Result("~File", FALSE, 0, FALSE)
    /\ out' = NoValue
    /\ UNCHANGED <<disk, obj, m_handle, za, released, snapshot, nops, iter, caller>>

\* no Archive object is alive: the callers of Next hold one Archive at a time
NoneLive == \A x \in Objs : obj[x] # "live"

\* objects are numbered in the order of their construction
Fresh(o) == \A x \in Objs : x < o => obj[x] # "none"

(***************************************************************************)
(* Sessions, one Archive at a time: open, buffer changes, close, reopen.   *)
(***************************************************************************)
Next ==
    \/ \E o \in Objs, flags \in OpenFlags : NoneLive /\ Fresh(o) /\ Archive_ctor(o, flags)
    \/ \E o \in Objs, ioOk \in BOOLEAN : Archive_dtor(o, ioOk)
    \/ \E o \in Objs, source \in Sources, name \in Names, memOk \in BOOLEAN :
            Archive_add(o, source, name, memOk)
    \/ \E o \in Objs, directory \in Dirs : Archive_mkdir(o, directory)
    \/ \E o \in Objs : Usable(o) /\ \E source \in Sources, index \in Indices(o), memOk \in BOOLEAN :
            Archive_replace(o, source, index, memOk)
    \/ \E o \in Objs : Usable(o) /\ \E index \in Indices(o), name \in Names : Archive_rename(o, index, name)
    \/ \E o \in Objs : Usable(o) /\ \E index \in Indices(o) : Archive_remove(o, index)
    \/ \E o \in Objs : Usable(o) /\ \E index \in Indices(o), text \in Comments : Archive_setFileComment(o, index, text)
    \/ \E o \in Objs : Usable(o) /\ \E index \in Indices(o), comp \in Comps : Archive_setFileCompression(o, index, comp)
    \/ \E o \in Objs, text \in Comments : Archive_setComment(o, text)
    \/ \E o \in Objs : Usable(o) /\ \E index \in Indices(o) : Archive_unchange(o, index)
    \/ \E o \in Objs : Archive_unchangeAll(o)
    \/ \E o \in Objs : Archive_unchangeArchive(o)

Spec == Init /\ [][Next]_vars

(***************************************************************************)
(* Ownership: several Archive objects at once, constructed, moved,         *)
(* assigned and destroyed in any order, with adds to make handles dirty.   *)
(***************************************************************************)
NextOwn ==
    \/ \E o \in Objs, flags \in OpenFlags : Fresh(o) /\ Archive_ctor(o, flags)
    \/ \E o \in Objs, other \in Objs : Fresh(o) /\ Archive_move_ctor(o, other)
    \/ \E o \in Objs, other \in Objs, ioOk \in BOOLEAN : Archive_move_assign(o, other, ioOk)
    \/ \E o \in Objs, ioOk \in BOOLEAN : Archive_dtor(o, ioOk)
    \/ \E o \in Objs, path \in Paths, name \in Names :
            Archive_add(o, source_file(path), name, TRUE)

SpecOwn == Init /\ [][NextOwn]_vars

(***************************************************************************)
(* Sessions with every call that can throw on one open archive: the        *)
(* buffering calls, the password and the archive flags.                    *)
(***************************************************************************)
\* the sources of these sessions: a buffer, and a disk file that exists or not
CallSources == { source_buffer(EmptyBytes) } \cup { source_file(p) : p \in Paths }

NextCalls ==
    \/ \E o \in Objs, flags \in OpenFlags : NoneLive /\ Fresh(o) /\ Archive_ctor(o, flags)
    \/ \E o \in Objs, source \in CallSources, name \in Names, memOk \in BOOLEAN :
            Archive_add(o, source, name, memOk)
    \/ \E o \in Objs, directory \in Dirs : Archive_mkdir(o, directory)
    \/ \E o \in Objs : Usable(o) /\ \E source \in CallSources, index \in Indices(o), memOk \in BOOLEAN :
            Archive_replace(o, source, index, memOk)
    \/ \E o \in Objs : Usable(o) /\ \E index \in Indices(o), name \in Names : Archive_rename(o, index, name)
    \/ \E o \in Objs : Usable(o) /\ \E index \in Indices(o) : Archive_remove(o, index)
    \/ \E o \in Objs : Usable(o) /\ \E index \in Indices(o), text \in Comments : Archive_setFileComment(o, index, text)
    \/ \E o \in Objs : Usable(o) /\ \E index \in Indices(o), comp \in Comps : Archive_setFileCompression(o, index, comp)
    \/ \E o \in Objs, text \in Comments : Archive_setComment(o, text)
    \/ \E o \in Objs : Usable(o) /\ \E index \in Indices(o) : Archive_unchange(o, index)
    \/ \E o \in Objs : Archive_unchangeAll(o)
    \/ \E o \in Objs : Archive_unchangeArchive(o)
    \/ \E o \in Objs, password \in Passwords, memOk \in BOOLEAN :
            Archive_setDefaultPassword(o, password, memOk)
    \/ \E o \in Objs, which \in ArchiveFlags, value \in {0, 1}, ok \in BOOLEAN :
            Archive_setFlag(o, which, value, ok)

SpecCalls == Init /\ [][NextCalls]_vars

(***************************************************************************)
(* Reading: Archive objects and the File objects opened from them,         *)
(* constructed, read and destroyed in any order.                           *)
(***************************************************************************)
NextFile ==
    \/ \E o \in Objs, flags \in OpenFlags : Fresh(o) /\ Archive_ctor(o, flags)
    \/ \E o \in Objs, ioOk \in BOOLEAN : Archive_dtor(o, ioOk)
    \/ \E o \in Objs, p \in Payloads, name \in Names :
            Archive_add(o, source_buffer(p), name, TRUE)
    \/ \E o \in Objs, f \in Files, name \in Names : Archive_open(o, f, name)
    \/ \E f \in Files, length \in ReadLengths, ioOk \in BOOLEAN : File_read_call(f, length, ioOk)
    \/ \E f \in Files : File_dtor(f)

SpecFile == Init /\ [][NextFile]_vars

(***************************************************************************)
(* Observations shared by the properties.                                  *)
(***************************************************************************)
\* the step runs the deleter (zip_close) on the handle of o
Closes(o) ==
    /\ obj[o] = "live"
    /\ m_handle[o] # NULL
    /\ released'[m_handle[o]] = released[m_handle[o]] + 1

\* the handle a caller gets when it opens the archive d without flags
Reopened(d) == zip_open(d, {}).z

\* what iterating an open handle shows: stat of every index below numEntries
EntriesView(z) == [i \in 1..numEntries(z) |-> stat_index(z, i - 1)]

(***************************************************************************)
(* C1: round trip.  Whenever an Archive that holds an entry added from     *)
(* source::buffer(p) under the name n is closed successfully, reopening    *)
(* the archive and reading stat(n).size bytes from open(n) returns         *)
(* exactly p.                                                              *)
(***************************************************************************)
C1_RoundTrip ==
    [][\A o \in Objs :
          (Closes(o) /\ last'.native = 0) =>
              \A i \in 1..Len(Z(o).entry) :
                  LET s == Z(o).entry[i]
                  IN  (~s.deleted /\ ~s.hasOrig /\ s.source.kind = "buffer") =>
                          ReadAll(Reopened(disk'), s.name) =
                              [thrown |-> FALSE, content |-> s.source.data]]_vars

(***************************************************************************)
(* C2: a failed finalize.  Whenever the close run by the destruction of an *)
(* Archive fails, the archive on storage stays as it was and the caller    *)
(* is told of the failure (the call throws).                               *)
(***************************************************************************)
C2_FailedCloseReported ==
    [][\A o \in Objs :
          (Closes(o) /\ last'.native < 0) => (disk' = disk /\ last'.thrown)]_vars

(***************************************************************************)
(* C3: the buffered view.  Right after a successful add(src, n) the name n *)
(* exists and find and stat locate it at the index add returned; right     *)
(* after a successful rename(i, m) stat(i).name is m; right after a        *)
(* successful setComment(c) comment() returns c.  Nothing was finalized.   *)
(***************************************************************************)
C3_BufferedView ==
    [][\A o \in Objs :
          /\ (last'.op = "add" /\ ~last'.thrown) =>
              \A source \in Sources, name \in Names, memOk \in BOOLEAN :
                Archive_add(o, source, name, memOk) =>
                    LET z == za'[m_handle[o]]
                    IN  /\ exists(z, name)
                        /\ find(z, name) = [thrown |-> FALSE, ret |-> last'.native]
                        /\ ~stat_name(z, name).thrown
                        /\ stat_name(z, name).st.name = name
                        /\ stat_name(z, name).st.index = last'.native
                        /\ disk' = disk
          /\ (last'.op = "rename" /\ ~last'.thrown /\ Usable(o)) =>
              \A index \in 0..MaxEntries, name \in Names :
                Archive_rename(o, index, name) =>
                    /\ ~stat_index(za'[m_handle[o]], index).thrown
                    /\ stat_index(za'[m_handle[o]], index).st.name = name
                    /\ disk' = disk
          /\ (last'.op = "setComment" /\ ~last'.thrown) =>
              \A text \in Comments :
                Archive_setComment(o, text) =>
                    /\ comment(za'[m_handle[o]]) = [thrown |-> FALSE, text |-> text]
                    /\ disk' = disk]_vars

\* the names of the entries of the archive on storage
DiskNames == { disk.entries[i].name : i \in 1..Len(disk.entries) }

\* an add has succeeded and exists() shows a name the archive on storage lacks
C3_Witness ==
    /\ last.op = "add"
    /\ ~last.thrown
    /\ \E o \in Objs : Usable(o) /\ \E n \in Names : exists(Z(o), n) /\ n \notin DiskNames

(***************************************************************************)
(* C4: only closing writes.  Every step that changes the archive on        *)
(* storage is a step that closes an Archive; add, mkdir, replace, remove,  *)
(* rename, setComment, setFileComment, setFileCompression and unchange*    *)
(* leave it as it is.                                                      *)
(***************************************************************************)
C4_OnlyCloseWrites ==
    [][disk' # disk => \E o \in Objs : Closes(o)]_vars

\* a change has been buffered and the archive on storage is still the one opened
C4_Witness ==
    /\ last.op \in {"add", "mkdir", "replace", "remove", "rename", "setComment",
                    "setFileComment", "setFileCompression"}
    /\ ~last.thrown
    /\ \E o \in Objs : Usable(o) /\ Changed(Z(o)) /\ disk = snapshot[m_handle[o]]

(***************************************************************************)
(* C5: unchangeAll.  After unchangeAll() the entries the handle shows      *)
(* (stat of every index below numEntries: names, sizes, order, count) are  *)
(* exactly those of the archive as it was opened, whatever changes were    *)
(* buffered before.                                                        *)
(***************************************************************************)
C5_UnchangeAllRestores ==
    [][\A o \in Objs :
          (last'.op = "unchangeAll" /\ Archive_unchangeAll(o)) =>
              /\ ~last'.thrown
              /\ EntriesView(za'[m_handle[o]]) =
                     EntriesView(zip_open(snapshot[m_handle[o]], {"ZIP_CREATE"}).z)]_vars

\* unchangeAll has run on a handle that held buffered changes
C5_Witness == last.op = "unchangeAll" /\ ~last.thrown /\ last.dirty

(***************************************************************************)
(* C6: unique names.  In every open handle no two live entries carry the   *)
(* same name; an add or a rename whose name is held by another live entry  *)
(* throws and leaves the entry table as it was: a step of add or rename    *)
(* that did not throw, or that changed a table, is not a call with a name  *)
(* that another live entry held.                                           *)
(***************************************************************************)
UniqueNames(z) ==
    LET st == [i \in 0..(numEntries(z) - 1) |-> stat_index(z, i)]
    IN  \A i, j \in DOMAIN st :
            (~st[i].thrown /\ ~st[j].thrown /\ st[i].st.name = st[j].st.name) => i = j

\* another live entry than index holds the name
HeldByOther(z, index, name) ==
    \E j \in 0..(numEntries(z) - 1) :
        j # index /\ LET s == stat_index(z, j) IN ~s.thrown /\ s.st.name = name

C6_NamesUnique ==
    /\ [](\A h \in Handles : za[h].st = "open" => UniqueNames(za[h]))
    /\ [][\A o \in Objs :
             /\ (last'.op = "add" /\ Usable(o) /\ ~(last'.thrown /\ za' = za)) =>
                 \A name \in Names :
                   HeldByOther(Z(o), -1, name) =>
                       \A source \in Sources : ~Archive_add(o, source, name, TRUE)
             /\ (last'.op = "rename" /\ Usable(o) /\ ~(last'.thrown /\ za' = za)) =>
                 \A index \in 0..MaxEntries, name \in Names :
                   HeldByOther(Z(o), index, name) => ~Archive_rename(o, index, name)]_vars

\* a rename to a name another live entry holds has been refused
C6_Witness ==
    /\ last.op = "rename"
    /\ last.thrown
    /\ \E o \in Objs : Usable(o) /\ \E i, j \in 0..MaxEntries :
          i # j /\ LiveIndex(Z(o), i) /\ LiveIndex(Z(o), j)

(***************************************************************************)
(* C7: remove and indices.  A successful remove(i) leaves the number of    *)
(* slots and the stat of every other index as they were, and index i no    *)
(* longer stats; after a successful close the reopened archive holds the   *)
(* surviving entries at 0, 1, 2, ... in their previous relative order.     *)
(***************************************************************************)
\* the live indices of a handle
LiveSet(z) == { i \in 0..(numEntries(z) - 1) : ~stat_index(z, i).thrown }

\* the number of live indices below i
Rank(z, i) == Cardinality({ j \in LiveSet(z) : j < i })

C7_RemoveKeepsIndices ==
    [][\A o \in Objs :
          /\ (last'.op = "remove" /\ ~last'.thrown /\ Usable(o)) =>
              \A index \in 0..MaxEntries :
                Archive_remove(o, index) =>
                    /\ numEntries(za'[m_handle[o]]) = numEntries(Z(o))
                    /\ stat_index(za'[m_handle[o]], index).thrown
                    /\ \A j \in 0..(numEntries(Z(o)) - 1) :
                          j # index => stat_index(za'[m_handle[o]], j) = stat_index(Z(o), j)
          /\ (Closes(o) /\ last'.native = 0 /\ LiveSet(Z(o)) # {}) =>
                    /\ numEntries(Reopened(disk')) = Cardinality(LiveSet(Z(o)))
                    /\ \A i \in LiveSet(Z(o)) :
                          /\ ~stat_index(Reopened(disk'), Rank(Z(o), i)).thrown
                          /\ stat_index(Reopened(disk'), Rank(Z(o), i)).st.name =
                                 stat_index(Z(o), i).st.name]_vars

\* remove has tombstoned a slot that is not the last, and the live entry after
\* it is where it was
C7_Witness ==
    /\ last.op = "remove"
    /\ ~last.thrown
    /\ \E o \in Objs : Usable(o) /\ \E i \in 0..MaxEntries :
          /\ ValidIndex(Z(o), i)
          /\ stat_index(Z(o), i).thrown
          /\ ~stat_index(Z(o), i + 1).thrown

(***************************************************************************)
(* C8: a missing archive.  Constructing an Archive where no file exists    *)
(* throws without ZIP_CREATE, leaving no object and no open handle; with   *)
(* ZIP_CREATE it yields an archive without entries.                        *)
(***************************************************************************)
\* position of begin() and of end()
Archive_begin(z) == 0

Archive_end(z) == numEntries(z)

C8_OpenMissing ==
    [][\A o \in Objs, flags \in OpenFlags :
          (last'.op = "Archive" /\ ~disk.exists /\ Archive_ctor(o, flags)) =>
              IF "ZIP_CREATE" \in flags
              THEN /\ ~last'.thrown
                   /\ obj'[o] = "live"
                   /\ m_handle'[o] # NULL
                   /\ za'[m_handle'[o]].st = "open"
                   /\ numEntries(za'[m_handle'[o]]) = 0
                   /\ Archive_begin(za'[m_handle'[o]]) = Archive_end(za'[m_handle'[o]])
              ELSE /\ last'.thrown
                   /\ obj'[o] = "failed"
                   /\ m_handle'[o] = NULL
                   /\ za' = za]_vars

\* a constructor has thrown on the missing archive
C8_Witness ==
    /\ last.op = "Archive"
    /\ last.thrown
    /\ ~disk.exists
    /\ \E o \in Objs : obj[o] = "failed"

(***************************************************************************)
(* C9: a missing source file.  add(source::file(path), name) with no file  *)
(* at path throws only when the name is taken; the missing file shows when *)
(* the archive is closed: that close fails and writes nothing.             *)
(***************************************************************************)
C9_MissingFileDeferred ==
    [][\A o \in Objs :
          /\ last'.op = "add" =>
              \A name \in Names :
                Archive_add(o, source_file("file_not_exist"), name, TRUE) =>
                    /\ last'.thrown <=> exists(Z(o), name)
                    /\ ~last'.thrown => exists(za'[m_handle[o]], name)
          /\ (Closes(o) /\ \E i \in 1..Len(Z(o).entry) : Unwritable(Z(o).entry[i])) =>
                    (last'.native < 0 /\ disk' = disk)]_vars

\* an add from a file that does not exist has succeeded
C9_Witness ==
    /\ last.op = "add"
    /\ ~last.thrown
    /\ \E o \in Objs : Usable(o) /\ \E i \in 1..Len(Z(o).entry) : Unwritable(Z(o).entry[i])

(***************************************************************************)
(* C10: single owner.  A native handle is held by at most one Archive, an  *)
(* open handle by exactly one live Archive; the deleter runs once on a     *)
(* handle, when its last owner is destroyed or assigned over, and never    *)
(* while it is owned or for a constructor that threw.                      *)
(***************************************************************************)
Holders(h) == { o \in Objs : m_handle[o] = h }

C10_SingleOwner ==
    /\ [](\A h \in Handles :
             /\ Cardinality(Holders(h)) <= 1
             /\ \A o \in Holders(h) : obj[o] = "live"
             /\ released[h] <= 1
             /\ za[h].st = "open" => (released[h] = 0 /\ Cardinality(Holders(h)) = 1)
             /\ za[h].st = "closed" => (released[h] = 1 /\ Holders(h) = {})
             /\ za[h].st = "free" => (released[h] = 0 /\ Holders(h) = {}))
    /\ [][\A o \in Objs, flags \in OpenFlags :
             (Archive_ctor(o, flags) /\ last'.thrown) =>
                 (released' = released /\ m_handle' = m_handle /\ za' = za)]_vars

\* a handle has moved: the source object is alive and empty, the target owns it
C10_Witness ==
    /\ last.op \in {"Archive(Archive &&)", "operator="}
    /\ \E o, other \in Objs :
          /\ obj[o] = "live" /\ m_handle[o] # NULL
          /\ obj[other] = "live" /\ m_handle[other] = NULL

(***************************************************************************)
(* C11: a File within its Archive.  No step reads a File or destroys it    *)
(* after the native handle it was opened from has been closed.             *)
(***************************************************************************)
\* a step of File f: a read or the destructor
FileStep(f) ==
    \/ \E length \in ReadLengths, ioOk \in BOOLEAN : File_read_call(f, length, ioOk)
    \/ File_dtor(f)

C11_FileWithinArchive ==
    [][\A f \in Files :
          (last'.op \in {"read", "~File"} /\ FileStep(f)) => za[file[f].h].st = "open"]_vars

(***************************************************************************)
(* C12: the states of a handle.  As claimed: a handle goes from closed to  *)
(* open and clean, to dirty, to closed; every successful add, mkdir,       *)
(* replace, remove, rename, comment or compression change leaves it dirty, *)
(* and an open handle is clean only right after its open.                  *)
(***************************************************************************)
ChangingOps == {"add", "mkdir", "replace", "remove", "rename", "setComment",
                "setFileComment", "setFileCompression"}

UnchangeOps == {"unchange", "unchangeAll", "unchangeArchive"}

\* the handle h stays open in this step
StaysOpen(h) == za[h].st = "open" /\ za'[h].st = "open"

C12_CleanOnlyAfterOpen ==
    [][\A h \in Handles :
          /\ (StaysOpen(h) /\ za'[h] # za[h] /\ last'.op \in ChangingOps /\ ~last'.thrown) =>
                 Changed(za'[h])
          /\ (StaysOpen(h) /\ Changed(za[h])) => Changed(za'[h])]_vars

(***************************************************************************)
(* C12, as the code has it: a handle goes free, open, closed and never     *)
(* back; it is clean right after its open; it turns dirty only in a        *)
(* changing call that returned normally; every successful add, mkdir and   *)
(* replace and every successful remove leaves it dirty; and it turns clean *)
(* again, still open, only in a successful unchange, unchangeAll or        *)
(* unchangeArchive or in a rename, comment or compression change that puts *)
(* the committed value back.                                               *)
(***************************************************************************)
C12_HandleStates ==
    [][\A h \in Handles :
          /\ za'[h].st # za[h].st =>
                 <<za[h].st, za'[h].st>> \in {<<"free", "open">>, <<"open", "closed">>}
          /\ (za[h].st = "free" /\ za'[h].st = "open") => ~Changed(za'[h])
          /\ (StaysOpen(h) /\ ~Changed(za[h]) /\ Changed(za'[h])) =>
                 (last'.op \in ChangingOps /\ ~last'.thrown)
          /\ (StaysOpen(h) /\ za'[h] # za[h] /\ ~last'.thrown
                /\ last'.op \in {"add", "mkdir", "replace", "remove"}) => Changed(za'[h])
          /\ (StaysOpen(h) /\ Changed(za[h]) /\ ~Changed(za'[h])) =>
                 /\ ~last'.thrown
                 /\ last'.op \in UnchangeOps \cup
                        {"rename", "setComment", "setFileComment", "setFileCompression"}]_vars

\* an unchange call has taken an open handle from dirty to clean
C12_Witness ==
    /\ last.op \in UnchangeOps
    /\ ~last.thrown
    /\ last.dirty
    /\ \E o \in Objs : Usable(o) /\ ~Changed(Z(o))

(***************************************************************************)
(* C13: failures surface.  A File::read(length) whose native read failed   *)
(* does not return normally: it throws instead of handing back an empty    *)
(* or shortened string.                                                    *)
(***************************************************************************)
C13_ReadFailureSurfaces ==
    [][(last'.op = "read" /\ last'.native < 0) => last'.thrown]_vars

(***************************************************************************)
(* C14: error codes become exceptions.  Every call of Archive that is      *)
(* documented as throwing throws exactly when its native call reports a    *)
(* failure, a negative return value or a null pointer (for add and replace *)
(* also when the call of the source does), and otherwise returns normally  *)
(* with what the native call answered.                                     *)
(***************************************************************************)
ThrowingOps == ChangingOps \cup UnchangeOps \cup {"setDefaultPassword", "setFlag"}

\* the calls that do not change the handle, on the handle z of object o
QueriesTranslate(o) ==
    LET z == Z(o)
    IN  /\ \A name \in Names :
              /\ find(z, name).thrown <=> zip_name_locate(z, name) < 0
              /\ ~find(z, name).thrown => find(z, name).ret = zip_name_locate(z, name)
              /\ stat_name(z, name).thrown <=> zip_stat(z, name).ret < 0
              /\ ~stat_name(z, name).thrown => stat_name(z, name).st.name = zip_stat(z, name).name
              /\ open(z, name).thrown <=> ~zip_fopen(z, name).ok
        /\ \A index \in Indices(o) :
              /\ stat_index(z, index).thrown <=> zip_stat_index(z, index).ret < 0
              /\ fileComment(z, index).thrown <=> ~zip_file_get_comment(z, index).ok
              /\ ~fileComment(z, index).thrown =>
                     fileComment(z, index).text = zip_file_get_comment(z, index).text
        /\ comment(z).thrown <=> ~zip_get_archive_comment(z).ok
        /\ ~comment(z).thrown => comment(z).text = zip_get_archive_comment(z).text
        /\ \A which \in ArchiveFlags, answer \in FlagAnswers :
              /\ flag(z, which, answer).thrown <=> zip_get_archive_flag(z, which, answer) < 0
              /\ ~flag(z, which, answer).thrown =>
                     flag(z, which, answer).ret = zip_get_archive_flag(z, which, answer)

Near(u) ==
    \/ u.w3 = 0 /\ u.w2 = 0 /\ u.w1 = 0 /\ u.w0 <= MaxEntries + MaxSteps
    \/ u.w3 = Word - 1 /\ u.w2 = Word - 1 /\ u.w1 = Word - 1 /\ u.w0 >= Word - MaxSteps

\* the offsets the caller passes to operator+, operator- and operator[]
Offsets == (0 - MaxSteps)..MaxSteps

\* the implementations of the iterator: Archive::Iterator, and the iterator
\* and const_iterator of zippy::Archive
Impls == {"Iterator", "zippy::iterator", "zippy::const_iterator"}

\* iter points to an Archive whose methods may be called
IterLive == iter.m_archive # NULL /\ Usable(iter.m_archive)

\* a range-for is running
InLoop == out.kind = "loop" /\ ~out.done

StatValue(r) == [kind |-> "stat", thrown |-> r.thrown, st |-> r.st]

\* it = archive.begin() and it = archive.end()
Iter_begin(o) ==
    /\ Usable(o)
    /\ iter' = Iterator(o, U64(Archive_begin(Z(o))))
    /\ out' = NoValue
    /\ last' = Result("begin", FALSE, 0, Changed(Z(o)))
    /\ UNCHANGED <<disk, obj, m_handle, za, released, snapshot, nops, file, caller>>

Iter_end(o) ==
    /\ Usable(o)
    /\ iter' = Iterator(o, U64(Archive_end(Z(o))))
    /\ out' = NoValue
    /\ last' = Result("end", FALSE, 0, Changed(Z(o)))
    /\ UNCHANGED <<disk, obj, m_handle, za, released, snapshot, nops, file, caller>>

\* *it
Iter_star ==
    /\ IterLive
    /\ LET r == Iterator_deref(iter, Z(iter.m_archive))
       IN  /\ out' = StatValue(r)
           /\ last' = Result("*it", r.thrown, r.st.ret, FALSE)
    /\ UNCHANGED <<disk, obj, m_handle, za, released, snapshot, nops, file, iter, caller>>

\* *it++
Iter_star_postinc ==
    /\ IterLive
    /\ LET p == Iterator_postinc(iter)
           r == Iterator_deref(p.save, Z(iter.m_archive))
       IN  /\ Near(p.it.m_index)
           /\ iter' = p.it
           /\ out' = StatValue(r)
           /\ last' = Result("*it++", r.thrown, r.st.ret, FALSE)
    /\ UNCHANGED <<disk, obj, m_handle, za, released, snapshot, nops, file, caller>>

\* *++it
Iter_star_preinc ==
    /\ IterLive
    /\ LET p == Iterator_preinc(iter)
           r == Iterator_deref(p, Z(iter.m_archive))
       IN  /\ Near(p.m_index)
           /\ iter' = p
           /\ out' = StatValue(r)
           /\ last' = Result("*++it", r.thrown, r.st.ret, FALSE)
    /\ UNCHANGED <<disk, obj, m_handle, za, released, snapshot, nops, file, caller>>

\* *it--
Iter_star_postdec ==
    /\ IterLive
    /\ LET p == Iterator_postdec(iter)
           r == Iterator_deref(p.save, Z(iter.m_archive))
       IN  /\ Near(p.it.m_index)
           /\ iter' = p.it
           /\ out' = StatValue(r)
           /\ last' = Result("*it--", r.thrown, r.st.ret, FALSE)
    /\ UNCHANGED <<disk, obj, m_handle, za, released, snapshot, nops, file, caller>>

\* *--it
Iter_star_predec ==
    /\ IterLive
    /\ LET p == Iterator_predec(iter)
           r == Iterator_deref(p, Z(iter.m_archive))
       IN  /\ Near(p.m_index)
           /\ iter' = p
           /\ out' = StatValue(r)
           /\ last' = Result("*--it", r.thrown, r.st.ret, FALSE)
    /\ UNCHANGED <<disk, obj, m_handle, za, released, snapshot, nops, file, caller>>

\* it + inc, the result held in out; it itself is const in the call
Iter_plus(inc) ==
    /\ IterLive
    /\ Near(Iterator_plus(iter, inc).m_index)
    /\ out' = [kind |-> "iterator", it |-> Iterator_plus(iter, inc)]
    /\ last' = Result("it + n", FALSE, inc, FALSE)
    /\ UNCHANGED <<disk, obj, m_handle, za, released, snapshot, nops, file, iter, caller>>

\* it - dec
Iter_minus(dec) ==
    /\ IterLive
    /\ Near(Iterator_minus(iter, dec).m_index)
    /\ out' = [kind |-> "iterator", it |-> Iterator_minus(iter, dec)]
    /\ last' = Result("it - n", FALSE, dec, FALSE)
    /\ UNCHANGED <<disk, obj, m_handle, za, released, snapshot, nops, file, iter, caller>>

\* it = (the iterator the last expression yielded)
Iter_assign ==
    /\ out.kind = "iterator"
    /\ iter' = out.it
    /\ out' = NoValue
    /\ last' = Result("it =", FALSE, 0, FALSE)
    /\ UNCHANGED <<disk, obj, m_handle, za, released, snapshot, nops, file, caller>>

\* it[index], with the operator[] of one of the implementations
Iter_subscript(index, impl) ==
    /\ IterLive
    /\ LET z == Z(iter.m_archive)
           r == IF impl = "Iterator" THEN Iterator_subscript(iter, index, z)
                ELSE zippy_iterator_subscript(iter, index, z)
       IN  /\ out' = StatValue(r)
           /\ last' = Result("it[n]", r.thrown, index, FALSE)
    /\ UNCHANGED <<disk, obj, m_handle, za, released, snapshot, nops, file, iter, caller>>

\* for (const Stat &s : archive): begin() and end() are taken once
Loop_begin(o) ==
    /\ Usable(o)
    /\ iter' = Iterator(o, U64(Archive_begin(Z(o))))
    /\ out' = [kind |-> "loop", end |-> Iterator(o, U64(Archive_end(Z(o)))),
               visited |-> <<>>, done |-> FALSE, thrown |-> FALSE]
    /\ last' = Result("for", FALSE, 0, Changed(Z(o)))
    /\ UNCHANGED <<disk, obj, m_handle, za, released, snapshot, nops, file, caller>>

\* one turn of the loop: the test it != end, then *it, the body, ++it; an
\* exception of *it leaves the loop
Loop_step ==
    /\ InLoop
    /\ LET r == Iterator_deref(iter, Z(iter.m_archive))
       IN  IF ~Iterator_ne(iter, out.end)
           THEN /\ out' = [out EXCEPT !.done = TRUE]
                /\ iter' = iter
                /\ last' = Result("for", FALSE, 0, FALSE)
           ELSE IF r.thrown
           THEN /\ out' = [out EXCEPT !.done = TRUE, !.thrown = TRUE]
                /\ iter' = iter
                /\ last' = Result("for", TRUE, r.st.ret, FALSE)
           ELSE /\ out' = [out EXCEPT !.visited = Append(@, r.st)]
                /\ iter' = Iterator_preinc(iter)
                /\ last' = Result("for", FALSE, 0, FALSE)
    /\ UNCHANGED <<disk, obj, m_handle, za, released, snapshot, nops, file, caller>>

\* one Archive, changed by add and remove, and the iterator expressions of
\* the tests; nothing else runs while a range-for does
NextIter ==
    \/ \E o \in Objs, flags \in OpenFlags : NoneLive /\ Fresh(o) /\ Archive_ctor(o, flags)
    \/ \E o \in Objs, name \in Names :
            ~InLoop /\ Archive_add(o, source_buffer(EmptyBytes), name, TRUE)
    \/ \E o \in Objs : Usable(o) /\ ~InLoop /\ \E index \in Indices(o) : Archive_remove(o, index)
    \/ \E o \in Objs : ~InLoop /\ Iter_begin(o)
    \/ \E o \in Objs : ~InLoop /\ Iter_end(o)
    \/ ~InLoop /\ Iter_star
    \/ ~InLoop /\ Iter_star_postinc
    \/ ~InLoop /\ Iter_star_preinc
    \/ ~InLoop /\ Iter_star_postdec
    \/ ~InLoop /\ Iter_star_predec
    \/ \E inc \in Offsets : ~InLoop /\ Iter_plus(inc)
    \/ \E dec \in Offsets : ~InLoop /\ Iter_minus(dec)
    \/ ~InLoop /\ Iter_assign
    \/ \E index \in Offsets, impl \in Impls : ~InLoop /\ Iter_subscript(index, impl)
    \/ \E o \in Objs : ~InLoop /\ Loop_begin(o)
    \/ Loop_step

SpecIter == Init /\ [][NextIter]_vars

(***************************************************************************)
(* C15: the range-for.  A loop over an Archive ends without an exception   *)
(* and has then visited stat(0), stat(1), ..., stat(numEntries() - 1), in  *)
(* this order and each once: numEntries() turns.                           *)
(***************************************************************************)
\* the loop ends in this step
LoopEnds == InLoop /\ out'.done

C15_LoopVisitsAll ==
    [][LoopEnds =>
          LET z == Z(iter.m_archive)
          IN  /\ ~out'.thrown
              /\ Len(out'.visited) = numEntries(z)
              /\ \A i \in 1..numEntries(z) : out'.visited[i] = zip_stat_index(z, i - 1)]_vars

(***************************************************************************)
(* C16: the subscript is relative.  For an iterator it at position i and   *)
(* an offset k with i + k an index of the archive, it[k] is the entry that *)
(* *(it + k) is, the one at index i + k, with the operator[] of every      *)
(* iterator class of the repository.                                       *)
(***************************************************************************)
\* position p is an index of archive z
IsIndex(p, z) == U64Index(p) < numEntries(z)

C16_SubscriptRelative ==
    [][(last'.op = "it[n]" /\ ~InLoop) =>
          \A index \in Offsets, impl \in Impls :
              LET z == Z(iter.m_archive)
                  sum == Iterator_plus(iter, index)
              IN  (Iter_subscript(index, impl) /\ IsIndex(sum.m_index, z)) =>
                      out' = StatValue(Iterator_deref(sum, z))]_vars

(***************************************************************************)
(* C17: increment.  For an iterator at position i, *it++ yields what       *)
(* stat(i) yields and leaves the iterator at i + 1; *++it yields what      *)
(* stat(i + 1) yields and leaves the iterator at i + 1; it + n, begin() + n*)
(* included, is at position i + n of the same archive and leaves it where  *)
(* it was.                                                                 *)
(***************************************************************************)
\* iter is at a position i below 2^16, on a live archive, outside a loop
AtPosition == ~InLoop /\ IterLive /\ U64Index(iter.m_index) < Word

C19_ExistsIffFind ==
    \A o \in Objs :
        Usable(o) =>
            LET z == Z(o)
            IN  /\ \A name \in Names :
                      /\ exists(z, name) \in BOOLEAN
                      /\ exists(z, name) <=> ~find(z, name).thrown
                /\ \A i \in 0..(numEntries(z) - 1) :
                      LiveIndex(z, i) =>
                          LET name == z.entry[i + 1].name
                              r == find(z, name)
                          IN  /\ exists(z, name)
                              /\ ~r.thrown
                              /\ r.ret >= 0 /\ r.ret <= i
                              /\ LiveIndex(z, r.ret)
                              /\ z.entry[r.ret + 1].name = name

\* an open archive with an entry at index 0, which find locates there, with
\* a removed entry, whose name no longer exists, and a buffered change
C19_Witness ==
    \E o \in Objs :
        /\ Usable(o)
        /\ Changed(Z(o))
        /\ LiveIndex(Z(o), 0)
        /\ find(Z(o), Z(o).entry[1].name) = [thrown |-> FALSE, ret |-> 0]
        /\ \E i \in 1..(numEntries(Z(o)) - 1) :
              /\ ~LiveIndex(Z(o), i)
              /\ ~exists(Z(o), Z(o).entry[i + 1].name)
              /\ find(Z(o), Z(o).entry[i + 1].name).thrown

(***************************************************************************)
(* C20: stat by name.  On every open archive, stat(name) of a name that    *)
(* exists does not throw, its record bears the requested name and, as      *)
(* size, the number of bytes of the entry's payload (the payload's length  *)
(* for an entry added from a buffer, also after it has been finalized and  *)
(* the archive opened again), and it is the record stat(find(name)) yields.*)
(***************************************************************************)
C20_StatByName ==
    \A o \in Objs :
        Usable(o) =>
            \A name \in Names :
                exists(Z(o), name) =>
                    LET z == Z(o)
                        r == stat_name(z, name)
                        index == find(z, name).ret
                        s == z.entry[index + 1]
                    IN  /\ ~r.thrown
                        /\ r.st.name = name
                        /\ r = stat_index(z, U64Index(U64(index)))
                        /\ SlotSizeKnown(s) =>
                              /\ r.st.size_valid
                              /\ r.st.size.hi = SlotData(s).hi
                              /\ r.st.size.lo = SlotData(s).lo
                        /\ (s.source.kind = "buffer" /\ ~s.deleted) =>
                              r.st.size = Bytes(s.source.data.hi, s.source.data.lo, 0)

\* an archive opened on a file an earlier Archive wrote: an entry of it has
\* the payload of 2^(IntBits - 1) bytes, which only an add from a buffer
\* brings in, and stat by its name gives that number as size
C20_Witness ==
    \E o \in Objs :
        /\ Usable(o)
        /\ ~Changed(Z(o))
        /\ \E i \in 0..(numEntries(Z(o)) - 1) :
              LET s == Z(o).entry[i + 1]
                  r == stat_name(Z(o), s.name)
              IN  /\ s.hasOrig /\ s.orig.data = Bytes(2^(IntBits - 17), 0, 3)
                  /\ ~r.thrown
                  /\ r.st.name = s.name
                  /\ r.st.size = Bytes(2^(IntBits - 17), 0, 0)
                  /\ r = stat_index(Z(o), i)

(***************************************************************************)
(* C21: read(length).  A read of length bytes on a stream with rest bytes  *)
(* left, its archive open and the storage readable, returns without an     *)
(* exception a string of at most length bytes: the next length bytes when  *)
(* that many are left (the whole content when length is the stat size),    *)
(* and the bytes that are left, none at end-of-stream, when length is      *)
(* larger.                                                                 *)
(***************************************************************************)
\* the first bytes of rest that a read of length is to return
Expected(rest, length) ==
    IF LenLeq(length, rest) THEN Bytes(length.hi, length.lo, rest.fill) ELSE rest

C21_ReadAtMostLength ==
    [][last'.op = "read" =>
          \A f \in Files :
              (file[f].st = "open" /\ za[file[f].h].st = "open") =>
                  \A length \in ReadLengths :
                      File_read_call(f, length, TRUE) =>
                          /\ ~last'.thrown
                          /\ out'.kind = "string"
                          /\ LenLeq(out'.content, length)
                          /\ out'.content = Expected(file[f].rest, length)]_vars

(***************************************************************************)
(* source::buffer in the hands of a caller: a std::string is constructed,  *)
(* a Source is made from it, the string is assigned to or destroyed, and   *)
(* the Source is added to an Archive.                                      *)
(***************************************************************************)
\* std::string s(p)
Caller_string(p) ==
    /\ caller.str = "none"
    /\ caller' = [caller EXCEPT !.str = "alive", !.data = p]
    /\ last' = Result("std::string", FALSE, 0, FALSE)
    /\ UNCHANGED <<disk, obj, m_handle, za, released, snapshot, nops, file, iter, out>>

\* source::buffer(s): the parameter `std::string data' is a copy of s, and
\* the closure holds it by value ([data = std::move(data)])
Caller_buffer ==
    /\ caller.str = "alive"
    /\ caller.source = NoSource
    /\ caller' = [caller EXCEPT !.source = source_buffer(Bytes(caller.data.hi, caller.data.lo, caller.data.fill)),
                                !.made = caller.data]
    /\ last' = Result("source::buffer", FALSE, 0, FALSE)
    /\ UNCHANGED <<disk, obj, m_handle, za, released, snapshot, nops, file, iter, out>>

\* s = p
Caller_assign(p) ==
    /\ caller.str = "alive"
    /\ caller' = [caller EXCEPT !.data = p]
    /\ last' = Result("s =", FALSE, 0, FALSE)
    /\ UNCHANGED <<disk, obj, m_handle, za, released, snapshot, nops, file, iter, out>>

\* s goes out of scope
Caller_destroy ==
    /\ caller.str = "alive"
    /\ caller' = [caller EXCEPT !.str = "destroyed", !.data = EmptyBytes]
    /\ last' = Result("~string", FALSE, 0, FALSE)
    /\ UNCHANGED <<disk, obj, m_handle, za, released, snapshot, nops, file, iter, out>>

\* a closure that holds a reference to the caller's string instead of a copy
Captured_reference(c) == [c.source EXCEPT !.data = c.data]

\* what the closure of the Source hands out when it is called: its own data
Captured(c) == c.source

\* archive.add(source, name) with the Source made above
Caller_add(o, name, memOk) ==
    /\ caller.source.kind = "buffer"
    /\ Archive_add(o, Captured(caller), name, memOk)

NextSource ==
    \/ \E o \in Objs, flags \in OpenFlags : NoneLive /\ Fresh(o) /\ Archive_ctor(o, flags)
    \/ \E o \in Objs, ioOk \in BOOLEAN : Archive_dtor(o, ioOk)
    \/ \E p \in Payloads : Caller_string(p)
    \/ Caller_buffer
    \/ \E p \in Payloads : Caller_assign(p)
    \/ Caller_destroy
    \/ \E o \in Objs, name \in Names, memOk \in BOOLEAN : Caller_add(o, name, memOk)

SpecSource == Init /\ [][NextSource]_vars

(***************************************************************************)
(* C22: a buffer Source owns its bytes.  Assigning to the caller's string  *)
(* or destroying it leaves the Source as it is, and the payload a          *)
(* successful add puts in the entry table is the string as it was when     *)
(* buffer() was called.                                                    *)
(***************************************************************************)
C22_BufferOwnsCopy ==
    [][/\ last'.op \in {"s =", "~string"} => caller'.source = caller.source
       /\ (last'.op = "add" /\ ~last'.thrown) =>
             \A o \in Objs :
                 Usable(o) =>
                     za'[m_handle[o]].entry[last'.native + 1].source = BufferSource(caller.made)]_vars

\* an add has succeeded after the caller's string was changed or destroyed
C22_Witness ==
    /\ last.op = "add" /\ ~last.thrown
    /\ caller.made # EmptyBytes
    /\ caller.data # caller.made
    /\ \E o \in Objs :
          /\ Usable(o)
          /\ Z(o).entry[last.native + 1].source = BufferSource(caller.made)

(***************************************************************************)
(* C23: the scopes of unchange, unchangeArchive and unchangeAll.           *)
(***************************************************************************)
\* the archive-level part of a handle: its comment, committed and buffered
ArchiveLevel(z) == <<z.comment_orig, z.comment_changed, z.comment_changes>>

\* a successful unchange(index) puts slot index back to its committed state
\* (the slot of an added entry is dropped) and leaves every other slot and
\* the archive-level part as they are
UnchangeOneScoped(o) ==
    (last'.op = "unchange" /\ ~last'.thrown) =>
        \A index \in Indices(o) :
            Archive_unchange(o, index) =>
                LET z == Z(o)
                    n == za'[m_handle[o]]
                IN  /\ Len(n.entry) = Len(z.entry)
                    /\ \A i \in 1..Len(z.entry) : i # index + 1 => n.entry[i] = z.entry[i]
                    /\ z.entry[index + 1].hasOrig =>
                          n.entry[index + 1] = OrigSlot(z.entry[index + 1].orig)
                    /\ ~z.entry[index + 1].hasOrig => ~LiveIndex(n, index)
                    /\ ArchiveLevel(n) = ArchiveLevel(z)

\* unchangeArchive puts the archive comment back and leaves every slot
UnchangeArchiveScoped(o) ==
    (last'.op = "unchangeArchive" /\ Archive_unchangeArchive(o)) =>
        LET z == Z(o)
            n == za'[m_handle[o]]
        IN  /\ ~last'.thrown
            /\ n.entry = z.entry
            /\ ~n.comment_changed /\ n.comment_orig = z.comment_orig

\* C23 as stated: unchange(i) discards the buffered changes of entry i only,
\* unchangeArchive() the archive-level changes only, and unchangeAll() the
\* changes of all entries, leaving the archive-level changes untouched
C23_UnchangeScopes ==
    [][\A o \in Objs :
          Usable(o) =>
              /\ UnchangeOneScoped(o)
              /\ UnchangeArchiveScoped(o)
              /\ (last'.op = "unchangeAll" /\ Archive_unchangeAll(o)) =>
                    /\ za'[m_handle[o]].entry = CommittedSlots(Z(o))
                    /\ ArchiveLevel(za'[m_handle[o]]) = ArchiveLevel(Z(o))]_vars

\* C23 amended: unchange(i) discards the buffered changes of entry i only,
\* unchangeArchive() the archive-level changes only, and unchangeAll() the
\* changes of all entries and the archive-level changes as well
C23_UnchangeAllIsAll ==
    [][\A o \in Objs :
          Usable(o) =>
              /\ UnchangeOneScoped(o)
              /\ UnchangeArchiveScoped(o)
              /\ (last'.op = "unchangeAll" /\ Archive_unchangeAll(o)) =>
                    LET n == za'[m_handle[o]]
                    IN  /\ n.entry = CommittedSlots(Z(o))
                        /\ ~n.comment_changed /\ n.comment_orig = Z(o).comment_orig]_vars

\* an unchange(i) has succeeded on a handle with buffered changes and has
\* left a buffered change of another entry or of the archive behind
C23_Witness ==
    /\ last.op = "unchange" /\ ~last.thrown /\ last.dirty
    /\ \E o \in Objs : Usable(o) /\ Changed(Z(o))

(***************************************************************************)
(* C24: isolation of handles.  What an open handle holds as committed is   *)
(* the archive as it was on storage when the handle was opened, whatever   *)
(* the other handles buffer or finalize meanwhile; a handle starts from    *)
(* the storage alone and a step changes one handle at most, so no handle   *)
(* shows another handle's buffered changes.                                *)
(***************************************************************************)
\* the handle as zip_open made it from the storage at its open time
AtOpen(h) == zip_open(snapshot[h], {"ZIP_CREATE"}).z

C24_Isolation ==
    /\ [](\A h \in Handles :
             za[h].st = "open" =>
                 /\ CommittedSlots(za[h]) = AtOpen(h).entry
                 /\ za[h].comment_orig = AtOpen(h).comment_orig
                 /\ ~Changed(za[h]) => za[h] = AtOpen(h))
    /\ [][/\ \A h, g \in Handles :
               (h # g /\ za'[g] # za[g] /\ za[h].st = "open") =>
                   (za'[h] = za[h] /\ snapshot'[h] = snapshot[h])
          /\ \A h \in Handles :
               (za[h].st = "free" /\ za'[h].st = "open") =>
                   (snapshot'[h] = disk /\ za'[h] = zip_open(disk, {"ZIP_CREATE"}).z)]_vars

\* two handles are open at once, one with buffered changes, the other still
\* showing the archive as it was when it was opened
C24_Witness ==
    \E h, g \in Handles :
        /\ h # g
        /\ za[h].st = "open" /\ za[g].st = "open"
        /\ Changed(za[g]) /\ za[g].entry # za[h].entry
        /\ ~Changed(za[h]) /\ za[h] = AtOpen(h)

(***************************************************************************)
(* C25: the native source in add and replace.  When the native call fails  *)
(* the wrapper releases the source once and throws; when it succeeds the   *)
(* wrapper does not release it and the entry holds it; when the Source     *)
(* functor throws, no source is made, the native call is not made and the  *)
(* entry table is as before.                                               *)
(***************************************************************************)
SourceOps == {"add", "replace"}

C25_SourceOwnership ==
    [][last'.op \in SourceOps =>
          \A o \in Objs :
              Usable(o) =>
                  LET z == Z(o)
                      n == za'[m_handle[o]]
                  IN  /\ (last'.made /\ last'.native < 0) =>
                            (last'.freed = 1 /\ last'.thrown /\ n = z)
                      /\ (last'.made /\ last'.native >= 0) =>
                            /\ last'.freed = 0 /\ ~last'.thrown
                            /\ last'.op = "add" =>
                                  /\ Len(n.entry) = Len(z.entry) + 1
                                  /\ n.entry[last'.native + 1].source.kind \in {"buffer", "file"}
                            /\ last'.op = "replace" =>
                                  \E index \in Indices(o) :
                                      /\ LiveIndex(z, index)
                                      /\ n.entry[index + 1].source.kind \in {"buffer", "file"}
                                      /\ n.entry = [z.entry EXCEPT ![index + 1] = n.entry[index + 1]]
                      /\ ~last'.made =>
                            (last'.thrown /\ last'.freed = 0 /\ last'.native = 0 /\ n = z)]_vars

\* a replace has failed in the native call, after the functor had made a
\* source, and the wrapper has released the source
C25_Witness ==
    /\ last.op = "replace"
    /\ last.made /\ last.native < 0 /\ last.thrown /\ last.freed = 1

(***************************************************************************)
(* C26: traversal.  On every open archive, whatever changes it has         *)
(* buffered, *it succeeds for every iterator it of [begin(), end()): every *)
(* index from begin() up to end() is one stat(index) does not throw on.    *)
(***************************************************************************)
C26_TraversalNeverThrows ==
    \A o \in Objs :
        Usable(o) =>
            \A i \in Archive_begin(Z(o))..(Archive_end(Z(o)) - 1) :
                ~Iterator_deref(Iterator(o, U64(i)), Z(o)).thrown

(***************************************************************************)
(* C27: the count is kept.  A read whose native call does not fail returns *)
(* a string of exactly as many bytes as the native read produced, whatever *)
(* the count, with File::read(Uint64) and with the older                   *)
(* ZipFile::read(unsigned), whatever the length asked for.                 *)
(***************************************************************************)
\* lengths of 2^IntBits bytes and more, which a caller of ZipFile::read may pass
LongLengths == { [hi |-> 2^(IntBits - 16), lo |-> 1] }

SameSize(content, count) == content.hi = count.hi /\ content.lo = count.lo

C27_CountNotTruncated ==
    [][(last'.op = "read" /\ last'.native = 0) =>
          \A f \in Files :
              file[f].st = "open" =>
                  /\ \A length \in ReadLengths :
                        File_read_call(f, length, TRUE) =>
                            SameSize(out'.content, zip_fread(file[f].rest, length))
                  /\ \A length \in ReadLengths \cup LongLengths :
                        SameSize(ZipFile_read(file[f].rest, length),
                                 zip_fread(file[f].rest, length))]_vars

(***************************************************************************)
(* C28: positions are 64-bit and wrap.                                     *)
(***************************************************************************)
\* the smallest and the largest int
IntMin == (0 - 2^(IntBits - 2)) - 2^(IntBits - 2)

IntMax == (2^(IntBits - 2) - 1) + 2^(IntBits - 2)

\* the ints the identities are evaluated for
IterInts == Offsets \cup {IntMin, IntMin + 1, IntMax}

\* -n as the caller computes it, in int: the negation of IntMin overflows,
\* which is undefined; builds give IntMin back (wrapping) or trap or saturate
Negate(n) == IF n = IntMin THEN {IntMin, IntMax} ELSE {0 - n}

\* position 2^64 - 1
LastPosition == [w0 |-> Word - 1, w1 |-> Word - 1, w2 |-> Word - 1, w3 |-> Word - 1]

\* (it + n) - n is where it is
PlusMinus(n) == Iterator_minus(Iterator_plus(iter, n), n) = iter

\* it + (-n) is where it - n is
PlusNegated(n) == \A m \in Negate(n) : Iterator_plus(iter, m) = Iterator_minus(iter, n)

\* a decrement at position 0 leaves the iterator at 2^64 - 1
DecrementWraps ==
    (iter.m_index = U64(0) /\ last'.op \in {"*--it", "*it--"}) =>
        iter' = Iterator(iter.m_archive, LastPosition)

\* C28 as stated: for every iterator it of an archive and every int n,
\* negative included,
\* (it + n) - n is at the position of it and it + (-n) at the position of
\* it - n; a decrement at position 0 yields position 2^64 - 1
C28_ModularForEveryInt ==
    /\ [](IterLive => \A n \in IterInts : PlusMinus(n) /\ PlusNegated(n))
    /\ [][DecrementWraps]_vars

\* C28 amended: the same, with it + (-n) and it - n compared for every int n
\* but the smallest one, whose negation is not an int
C28_ModularPositions ==
    /\ [](IterLive => \A n \in IterInts : PlusMinus(n) /\ (n # IntMin => PlusNegated(n)))
    /\ [][DecrementWraps]_vars

\* *--it at position 0 has left the iterator at 2^64 - 1 (and thrown, since
\* no entry is there)
C28_Witness ==
    /\ last.op = "*--it"
    /\ IterLive
    /\ iter.m_index = LastPosition
    /\ iter.m_index = U64(0 - 1)
    /\ Iterator_plus(iter, 1).m_index = U64(0)

====
